---- MODULE Spec2Model ----
(***************************************************************************)
(* Model of the PrimeTime BD Intel core: the program mapping engine        *)
(* (src/pipelines/mapping_engine/map_jobs_to_programs.py) and the job      *)
(* normalizer with its clearance extractor                                 *)
(* (src/pipelines/scraper_engine/normalize_jobs.py).                       *)
(*                                                                         *)
(* Conventions.  A Python str is a tuple of one-character strings, so that *)
(* lower(), upper(), substring tests and regular expressions are computed  *)
(* character by character.  A Python dict is a record; dict.get(k, d) is   *)
(* Get(d, k, default).  A call that raises is the record                   *)
(* [raise |-> <exception name>].  Program codes, job ids and tags are      *)
(* atomic strings.  confidence_score is kept in tenths (7 is 0.7).         *)
(* match_score is an IEEE-754 double, kept exactly (see FAdd).             *)
(***************************************************************************)
EXTENDS Integers, Sequences, FiniteSets, TLC

VARIABLES
    dict_file,        \* config/programs_dictionary.json: [state, content]
    api_key,          \* whether OPENAI_API_KEY is set in the environment
    settings,         \* what load_settings returned
    jobs_file,        \* the jobs JSON file given to process_jobs_batch
    engine,           \* "none", "ready" or "raised": ProgramMappingEngine()
    programs_dict,    \* self.programs_dict
    pc,               \* position of main(): start, loaded, loop, done, exit1
    mapping_results,  \* process_jobs_batch's mapping_results
    service_log,      \* what the completion service did for each mapped job
    now,              \* datetime.now(), as a tick count
    kw_input,         \* keyword strategy runs: [job, dict, settings]
    kw_runs,          \* results of the runs of _keyword_based_mapping
    description,      \* the text given to _extract_clearance
    clearance,        \* what _extract_clearance returned
    input_file,       \* normalize_jobs.py: the file of --input
    source_arg,       \* normalize_jobs.py: args.source
    norm_pc,          \* position of normalize_jobs.main(): start, loop, saved, exit1
    raw_jobs,         \* main's jobs, after the source filter
    normalized_jobs,  \* main's normalized_jobs
    normalize_log,    \* what each call of normalize_job did
    clock,            \* index in Times of the latest datetime.now()
    field_input,      \* a field cleaner's run: [field, value]
    field_output      \* what the field cleaner returned

vars == <<dict_file, api_key, settings, jobs_file, engine, programs_dict, pc,
          mapping_results, service_log, now, kw_input, kw_runs, description,
          clearance, input_file, source_arg, norm_pc, raw_jobs,
          normalized_jobs, normalize_log, clock, field_input, field_output>>

engine_vars == <<dict_file, api_key, settings, jobs_file, engine,
                 programs_dict, pc, mapping_results, service_log, now>>
keyword_vars == <<kw_input, kw_runs>>
clearance_vars == <<description, clearance>>
normalize_vars == <<input_file, source_arg, norm_pc, raw_jobs, normalized_jobs,
                    normalize_log, clock>>
field_vars == <<field_input, field_output>>

\* normalize_jobs.main() is not run
NormalizerIdle ==
    /\ input_file = [state |-> "missing"]
    /\ source_arg = [none |-> TRUE]
    /\ norm_pc = "idle"
    /\ raw_jobs = <<>>
    /\ normalized_jobs = <<>>
    /\ normalize_log = <<>>
    /\ clock = 1

\* no field cleaner is run
FieldsIdle ==
    /\ field_input = [none |-> TRUE]
    /\ field_output = [none |-> TRUE]

-----------------------------------------------------------------------------
(* Python values *)

None == "<None>"
NoValue == [none |-> TRUE]

Get(d, k, default) == IF k \in DOMAIN d THEN d[k] ELSE default

Raise(e) == [raise |-> e]
Raised(x) == "raise" \in DOMAIN x

Range(s) == {s[i] : i \in 1..Len(s)}

\* Body applied to value, the value computed once
Bind(value, Body(_)) == CHOOSE y \in {Body(v) : v \in {value}} : TRUE

UpperChars == <<"A","B","C","D","E","F","G","H","I","J","K","L","M",
                "N","O","P","Q","R","S","T","U","V","W","X","Y","Z">>
LowerChars == <<"a","b","c","d","e","f","g","h","i","j","k","l","m",
                "n","o","p","q","r","s","t","u","v","w","x","y","z">>

\* the letters str.lower() and str.upper() change (ASCII)
LowerTable == [c \in Range(UpperChars) |->
                 LowerChars[CHOOSE i \in 1..Len(UpperChars) : UpperChars[i] = c]]
UpperTable == [c \in Range(LowerChars) |->
                 UpperChars[CHOOSE i \in 1..Len(LowerChars) : LowerChars[i] = c]]

CharLower(c) == IF c \in DOMAIN LowerTable THEN LowerTable[c] ELSE c
CharUpper(c) == IF c \in DOMAIN UpperTable THEN UpperTable[c] ELSE c

\* str.lower() and str.upper()
Lower(s) == [i \in 1..Len(s) |-> CharLower(s[i])]
Upper(s) == [i \in 1..Len(s) |-> CharUpper(s[i])]

\* `s in t` for two strings
IsSubstr(s, t) ==
    \E i \in 0..(Len(t) - Len(s)) : SubSeq(t, i + 1, i + Len(s)) = s

RECURSIVE Join(_, _)
\* sep.join(items)
Join(sep, items) ==
    IF Len(items) = 0 THEN <<>>
    ELSE IF Len(items) = 1 THEN items[1]
    ELSE items[1] \o sep \o Join(sep, Tail(items))

-----------------------------------------------------------------------------
(* IEEE-754 doubles.  A non-negative double below 8.0 is the pair <<hi, lo>> *)
(* with value (hi * 2^28 + lo) * 2^-55; every double of the model is a       *)
(* multiple of 2^-55.  FAdd is the correctly rounded sum (round to nearest,  *)
(* ties to even) that Python's float + float computes.                       *)

Limb == 2^28

\* how many low bits of the 2^-55 grid a double of this magnitude cannot hold
DropBits(hi) ==
    IF hi < 2^25 THEN 0
    ELSE IF hi < 2^26 THEN 1
    ELSE IF hi < 2^27 THEN 2
    ELSE IF hi < 2^28 THEN 3
    ELSE IF hi < 2^29 THEN 4
    ELSE 5

FAdd(x, y) ==
    LET lo0  == x[2] + y[2]
        lo1  == lo0 % Limb
        hi1  == x[1] + y[1] + (lo0 \div Limb)
        k    == DropBits(hi1)
        m    == 2^k
        r    == lo1 % m
        half == m \div 2
        base == lo1 - r
        up   == k > 0 /\ (r > half \/ (r = half /\ (base \div m) % 2 = 1))
        lo2  == IF up THEN base + m ELSE base
    IN  <<hi1 + (lo2 \div Limb), lo2 % Limb>>

FGe(x, y) == x[1] > y[1] \/ (x[1] = y[1] /\ x[2] >= y[2])

F_Zero == <<0, 0>>
\* the doubles the literals 0.3, 0.2 and 0.4 denote
F_0_3 == <<40265318, 107374182>>
F_0_2 == <<26843545, 161061274>>
F_0_4 == <<53687091, 53687092>>

-----------------------------------------------------------------------------
(* Strings of the modelled inputs *)

S_Empty == <<>>
S_Space == <<" ">>
S_CommaSpace == <<",", " ">>
S_F35 == <<"F","-","3","5">>
S_JSF == <<"J","S","F">>
S_Lightning == <<"L","i","g","h","t","n","i","n","g">>
S_avionics == <<"a","v","i","o","n","i","c","s">>
S_radar == <<"r","a","d","a","r">>
S_stealth == <<"s","t","e","a","l","t","h">>
S_B21 == <<"B","-","2","1">>
S_Raider == <<"R","a","i","d","e","r">>
S_Lockheed == <<"L","o","c","k","h","e","e","d">>
S_LockheedMartin == <<"L","O","C","K","H","E","E","D"," ","M","a","r","t","i","n">>
S_Northrop == <<"N","o","r","t","h","r","o","p">>
S_Acme == <<"A","c","m","e">>
S_Engineer == <<"E","n","g","i","n","e","e","r">>
S_Analyst == <<"A","n","a","l","y","s","t">>
S_DescAvionics == <<"F","-","3","5"," ","a","v","i","o","n","i","c","s">>
S_DescRadar == <<"R","a","d","a","r"," ","o","p","s">>
S_DescAll == <<"J","S","F"," ","F","-","3","5"," ","L","i","g","h","t","n","i","n","g">>
S_DescNames == <<"B","-","2","1"," ","R","a","i","d","e","r"," ","s","t","e","a","l","t","h">>
S_Ok == <<"o","k">>
S_KeywordReasoning == <<"K","e","y","w","o","r","d","-","b","a","s","e","d"," ","m","a","p","p","i","n","g"," ","u","s","i","n","g"," ","t","e","r","m","s",":"," ">>
S_FallbackReasoning == <<"F","a","i","l","e","d"," ","t","o"," ","a","n","a","l","y","z","e"," ","j","o","b"," ","p","o","s","t","i","n","g">>

(* Program dictionary entries (config/programs_dictionary.json).  The file  *)
(* is a JSON object, which json.load returns as a dict in file order: a     *)
(* sequence of <<code, details>> pairs.                                     *)

P_F35 == <<"F35", [full_name |-> S_F35, prime_contractor |-> S_Lockheed,
                   acronyms |-> <<S_JSF>>, code_names |-> <<S_Lightning>>,
                   key_skills |-> <<S_avionics, S_radar, S_stealth>>]>>
P_B21 == <<"B21", [full_name |-> S_B21, prime_contractor |-> S_Northrop,
                   code_names |-> <<S_Raider>>,
                   key_skills |-> <<S_stealth, S_radar>>]>>
\* an entry without prime_contractor and without the optional lists
P_Bare(code) == <<code, [full_name |-> S_JSF]>>
\* an entry without full_name
P_NoName == <<"X1", [prime_contractor |-> S_Acme, key_skills |-> <<S_radar>>]>>

Dictionaries ==
    { <<>>, <<P_F35>>, <<P_F35, P_B21>>, <<P_NoName>>, <<P_Bare("JSF"), P_B21>>,
      <<P_Bare("JSF"), P_Bare("JSF-A"), P_Bare("JSF-B"), P_Bare("JSF-C")>> }

\* the doubles the YAML literals 0.5, 0.6 and 0.9 denote
F_0_5 == <<67108864, 0>>
F_0_6 == <<80530636, 214748364>>
F_0_9 == <<120795955, 53687092>>

ThresholdValues == {F_0_5, F_0_6, F_0_9}

\* what load_settings can return: with or without the threshold key
SettingsValues ==
    {[model |-> "gpt", keyword_match_threshold |-> th] : th \in ThresholdValues}
    \cup {[model |-> "gpt"]}

-----------------------------------------------------------------------------
(* Keyword Mapping Strategy: ProgramMappingEngine._keyword_based_mapping.   *)
(* self is the engine: [programs_dict, settings].                           *)

LowerAll(items) == [i \in 1..Len(items) |-> Lower(items[i])]

\* job_text, line 143
JobText(job_data) ==
    Lower(Get(job_data, "title", S_Empty) \o S_Space
          \o Get(job_data, "description", S_Empty))

\* program_terms, lines 149-151: details['full_name'] raises when absent
ProgramTerms(details) ==
    IF "full_name" \notin DOMAIN details THEN Raise("KeyError")
    ELSE [terms |-> <<Lower(details.full_name)>>
                    \o LowerAll(Get(details, "acronyms", <<>>))
                    \o LowerAll(Get(details, "code_names", <<>>))]

\* program_skills, line 154
ProgramSkills(details) == LowerAll(Get(details, "key_skills", <<>>))

RECURSIVE MatchLoop(_, _, _, _, _)
\* the loops of lines 160-163 (weight 0.3) and 165-168 (weight 0.2), from
\* item i on; acc is [match_score, matched_keywords]
MatchLoop(items, job_text, weight, i, acc0) ==
    Bind(acc0, LAMBDA acc :
        IF i > Len(items) THEN acc
        ELSE IF IsSubstr(items[i], job_text)
        THEN MatchLoop(items, job_text, weight, i + 1,
                 [match_score |-> FAdd(acc.match_score, weight),
                  matched_keywords |-> Append(acc.matched_keywords, items[i])])
        ELSE MatchLoop(items, job_text, weight, i + 1, acc))

\* the company test of line 171
CompanyMatch(details, job_data) ==
    IsSubstr(Lower(Get(details, "prime_contractor", S_Empty)),
             Lower(Get(job_data, "company", S_Empty)))

\* line 172
AddCompany(acc, company_match) ==
    IF company_match
    THEN [acc EXCEPT !.match_score = FAdd(acc.match_score, F_0_4)]
    ELSE acc

\* lines 149-172 for one program: [match_score, matched_keywords], or a raise
MatchScore(details, job_data, job_text) ==
    Bind(ProgramTerms(details), LAMBDA program_terms :
        IF Raised(program_terms) THEN program_terms
        ELSE Bind(ProgramSkills(details), LAMBDA program_skills :
             AddCompany(
                 MatchLoop(program_skills, job_text, F_0_2, 1,
                     MatchLoop(program_terms.terms, job_text, F_0_3, 1,
                         [match_score |-> F_Zero, matched_keywords |-> <<>>])),
                 CompanyMatch(details, job_data))))

\* line 174: settings["program_mapping"]["keyword_match_threshold"]
MeetsThreshold(self, match_score) ==
    FGe(match_score, self.settings.keyword_match_threshold)

RECURSIVE ProgramLoop(_, _, _, _, _)
\* the loop of lines 147-176 from entry i on: [mapped_programs, keywords_found],
\* or the raise of the first entry that raises
ProgramLoop(self, job_data, job_text, i, acc0) ==
    Bind(acc0, LAMBDA acc :
        IF i > Len(self.programs_dict) THEN acc
        ELSE Bind(MatchScore(self.programs_dict[i][2], job_data, job_text),
             LAMBDA ms :
                IF Raised(ms) THEN ms
                ELSE IF "keyword_match_threshold" \notin DOMAIN self.settings
                THEN Raise("KeyError")
                ELSE IF MeetsThreshold(self, ms.match_score)
                THEN ProgramLoop(self, job_data, job_text, i + 1,
                         [mapped_programs |->
                              Append(acc.mapped_programs, self.programs_dict[i][1]),
                          keywords_found |->
                              acc.keywords_found \o ms.matched_keywords])
                ELSE ProgramLoop(self, job_data, job_text, i + 1, acc)))

\* lines 143-176: the scan of the dictionary
KeywordScan(self, job_data) ==
    Bind(JobText(job_data), LAMBDA job_text :
        ProgramLoop(self, job_data, job_text, 1,
                    [mapped_programs |-> <<>>, keywords_found |-> <<>>]))

\* the orders in which a set of strings can be iterated: CPython orders a set
\* of str by the strings' hashes, which are salted per process
SetOrders(S) == {s \in [1..Cardinality(S) -> S] : Range(s) = S}

\* the orders set(keywords_found) can have for this job (lines 182-183)
KeywordOrders(self, job_data) ==
    LET scan == KeywordScan(self, job_data) IN
    IF Raised(scan) THEN {<<>>} ELSE SetOrders(Range(scan.keywords_found))

Min(a, b) == IF a <= b THEN a ELSE b

\* the confidence without the cap of 0.7
KeywordConfidenceUncapped(mapped_programs) == Len(mapped_programs) * 2

\* min(0.7, len(mapped_programs) * 0.2), line 181, in tenths
KeywordConfidence(mapped_programs) == Min(7, Len(mapped_programs) * 2)

\* t is datetime.now(); set_order is the iteration order of set(keywords_found),
\* the same for both set() calls of one run
_keyword_based_mapping(self, job_data, t, set_order) ==
    LET scan == KeywordScan(self, job_data) IN
    IF Raised(scan) THEN scan
    ELSE [job_id |-> Get(job_data, "job_id", None),
          mapped_programs |-> scan.mapped_programs,
          confidence_score |-> KeywordConfidence(scan.mapped_programs),
          reasoning |-> S_KeywordReasoning \o Join(S_CommaSpace, set_order),
          keywords_found |-> set_order,
          mapped_at |-> t,
          source |-> "keyword_matching"]

\* _create_fallback_mapping taking the id the log line of line 78 prints
create_fallback_mapping_unknown_id(job_data, t) ==
    [job_id |-> IF "job_id" \in DOMAIN job_data THEN "unknown" ELSE None,
     mapped_programs |-> <<>>,
     confidence_score |-> 0,
     reasoning |-> S_FallbackReasoning,
     keywords_found |-> <<>>,
     mapped_at |-> t,
     source |-> "fallback"]

\* _create_fallback_mapping, lines 188-198
_create_fallback_mapping(job_data, t) ==
    [job_id |-> Get(job_data, "job_id", None),
     mapped_programs |-> <<>>,
     confidence_score |-> 0,
     reasoning |-> S_FallbackReasoning,
     keywords_found |-> <<>>,
     mapped_at |-> t,
     source |-> "fallback"]

-----------------------------------------------------------------------------
(* Semantic Mapping Strategy.  The completion service's answer is a        *)
(* sequence of tokens: plain text without braces, an opening brace, a      *)
(* closing brace, or one well-formed "key": value member of a JSON object. *)

TText == [tok |-> "text"]
TOpen == [tok |-> "{"]
TClose == [tok |-> "}"]
TPrograms(codes) == [tok |-> "member", k |-> "mapped_programs", codes |-> codes]
TConfidence(tenths) == [tok |-> "member", k |-> "confidence_score", num |-> tenths]
TReasoning(s) == [tok |-> "member", k |-> "reasoning", str |-> s]
TKeywords(ks) == [tok |-> "member", k |-> "keywords_found", strs |-> ks]

R_NoJson == <<TText>>
R_Full == <<TText, TOpen, TPrograms(<<"F35">>), TConfidence(9), TReasoning(S_Ok),
            TKeywords(<<S_radar>>), TClose, TText>>
R_HighConfidence == <<TOpen, TPrograms(<<"B21">>), TConfidence(15), TClose>>
R_TwoObjects == <<TOpen, TConfidence(9), TClose, TText, TOpen, TConfidence(3), TClose>>

\* what chat.completions.create can do (lines 61-72): raise (service error,
\* timeout, network failure), or answer with message.content a str or None
ServiceOutcomes ==
    {[kind |-> "error"], [kind |-> "content", content |-> NoValue]}
    \cup {[kind |-> "content", content |-> [text |-> r]] :
            r \in {R_NoJson, R_Full, R_HighConfidence, R_TwoObjects}}

\* _create_mapping_prompt, lines 81-115: details['full_name'] and
\* details['prime_contractor'] raise when absent
_create_mapping_prompt(self, job_data) ==
    IF \E i \in 1..Len(self.programs_dict) :
           \/ "full_name" \notin DOMAIN self.programs_dict[i][2]
           \/ "prime_contractor" \notin DOMAIN self.programs_dict[i][2]
    THEN Raise("KeyError")
    ELSE [title |-> Get(job_data, "title", "N/A"),
          company |-> Get(job_data, "company", "N/A"),
          description |-> Get(job_data, "description", "N/A"),
          programs_info |->
              [i \in 1..Len(self.programs_dict) |->
                  <<self.programs_dict[i][1],
                    self.programs_dict[i][2].full_name,
                    self.programs_dict[i][2].prime_contractor>>]]

\* re.search(r'\{.*\}', text, re.DOTALL), line 122: the leftmost opening brace
\* up to the last closing brace after it (.* is greedy); NoValue when none
JsonMatch(text) ==
    LET opens == {i \in 1..Len(text) : text[i] = TOpen}
        closes == {i \in 1..Len(text) : text[i] = TClose}
    IN  IF opens = {} \/ closes = {} THEN NoValue
        ELSE LET first == CHOOSE i \in opens : \A j \in opens : i <= j
                 last == CHOOSE i \in closes : \A j \in closes : j <= i
             IN  IF last > first THEN [group |-> SubSeq(text, first, last)]
                 ELSE NoValue

\* json.loads, line 124: the members of the object, or a raise
JsonLoads(group) ==
    IF /\ Len(group) >= 2
       /\ group[1] = TOpen
       /\ group[Len(group)] = TClose
       /\ \A i \in 2..(Len(group) - 1) : group[i].tok = "member"
    THEN [members |-> SubSeq(group, 2, Len(group) - 1)]
    ELSE Raise("JSONDecodeError")

HasKey(members, k) == \E i \in 1..Len(members) : members[i].k = k
\* the member json.loads keeps for a key: the last one
Member(members, k) ==
    members[CHOOSE i \in 1..Len(members) :
                /\ members[i].k = k
                /\ \A j \in (i + 1)..Len(members) : members[j].k # k]

\* _parse_ai_response, lines 117-139.  ai_response is [text |-> tokens], or
\* NoValue for None, on which re.search raises inside the try
_parse_ai_response(self, ai_response, job_data, t, set_order) ==
    LET m == IF "text" \in DOMAIN ai_response THEN JsonMatch(ai_response.text)
             ELSE NoValue
        parsed == IF "group" \in DOMAIN m THEN JsonLoads(m.group) ELSE NoValue
    IN  IF "members" \in DOMAIN parsed
        THEN LET ms == parsed.members IN
             [job_id |-> Get(job_data, "job_id", None),
              mapped_programs |->
                  IF HasKey(ms, "mapped_programs")
                  THEN Member(ms, "mapped_programs").codes ELSE <<>>,
              confidence_score |->
                  IF HasKey(ms, "confidence_score")
                  THEN Member(ms, "confidence_score").num ELSE 0,
              reasoning |->
                  IF HasKey(ms, "reasoning")
                  THEN Member(ms, "reasoning").str ELSE S_Empty,
              keywords_found |->
                  IF HasKey(ms, "keywords_found")
                  THEN Member(ms, "keywords_found").strs ELSE <<>>,
              mapped_at |-> t,
              source |-> "ai_analysis"]
        ELSE _keyword_based_mapping(self, job_data, t, set_order)

\* map_job_to_programs catching only the failures of the service call
map_job_narrow_except(self, job_data, outcome, t, set_order) ==
    LET prompt == _create_mapping_prompt(self, job_data) IN
    IF Raised(prompt) THEN _create_fallback_mapping(job_data, t)
    ELSE IF outcome.kind = "error" THEN _create_fallback_mapping(job_data, t)
    ELSE _parse_ai_response(self, outcome.content, job_data, t, set_order)

\* map_job_to_programs with a failed service call handed to the keyword
\* strategy instead of _create_fallback_mapping
map_job_error_to_keyword(self, job_data, outcome, t, set_order) ==
    LET prompt == _create_mapping_prompt(self, job_data) IN
    IF Raised(prompt) THEN _create_fallback_mapping(job_data, t)
    ELSE LET mapping_result ==
                 IF outcome.kind = "error"
                 THEN _keyword_based_mapping(self, job_data, t, set_order)
                 ELSE _parse_ai_response(self, outcome.content, job_data, t, set_order)
         IN  IF Raised(mapping_result) THEN _create_fallback_mapping(job_data, t)
             ELSE mapping_result

\* map_job_to_programs, lines 54-79: every exception of the try block ends
\* in _create_fallback_mapping
map_job_to_programs(self, job_data, outcome, t, set_order) ==
    LET prompt == _create_mapping_prompt(self, job_data) IN
    IF Raised(prompt) THEN _create_fallback_mapping(job_data, t)
    ELSE IF outcome.kind = "error" THEN _create_fallback_mapping(job_data, t)
    ELSE LET mapping_result ==
                 _parse_ai_response(self, outcome.content, job_data, t, set_order)
         IN  IF Raised(mapping_result) THEN _create_fallback_mapping(job_data, t)
             ELSE mapping_result

-----------------------------------------------------------------------------
(* The engine and its batch run: ProgramMappingEngine.__init__,            *)
(* process_jobs_batch and main.                                            *)

Job_1 == [job_id |-> "j1", title |-> S_Engineer, company |-> S_LockheedMartin,
          description |-> S_DescAvionics]
\* a job record without job_id and without company
Job_2 == [title |-> S_Engineer, description |-> S_DescNames]

Jobs == {Job_1, Job_2}

MaxJobs == 2

RECURSIVE SeqsUpTo(_, _)
SeqsUpTo(S, n) ==
    IF n = 0 THEN {<<>>}
    ELSE LET shorter == SeqsUpTo(S, n - 1)
         IN  shorter \cup {Append(s, x) : s \in {q \in shorter : Len(q) = n - 1}, x \in S}

DictFiles ==
    {[state |-> "missing"], [state |-> "malformed"]}
    \cup {[state |-> "ok", content |-> d] :
            d \in {<<>>, <<P_F35>>, <<P_F35, P_B21>>, <<P_NoName>>}}

\* _load_programs_dictionary, lines 37-44: only FileNotFoundError is caught;
\* json.load raises JSONDecodeError on a malformed file
_load_programs_dictionary(file) ==
    IF file.state = "missing" THEN [dict |-> <<>>]
    ELSE IF file.state = "malformed" THEN Raise("JSONDecodeError")
    ELSE [dict |-> file.content]

\* _setup_openai without the check of the key
setup_openai_unchecked(key) == [client |-> "OpenAI"]

\* _setup_openai, lines 46-52
_setup_openai(key) ==
    IF ~key THEN Raise("ValueError") ELSE [client |-> "OpenAI"]

Self == [programs_dict |-> programs_dict, settings |-> settings]

\* main, lines 240-242 and 250-252: ProgramMappingEngine(args.config); an
\* exception of __init__ (lines 33-35) ends the run with sys.exit(1)
Construct ==
    /\ pc = "start"
    /\ LET loaded == _load_programs_dictionary(dict_file)
           client == _setup_openai(api_key)
       IN  IF Raised(loaded) \/ Raised(client)
           THEN /\ engine' = "raised"
                /\ pc' = "exit1"
                /\ UNCHANGED programs_dict
           ELSE /\ engine' = "ready"
                /\ programs_dict' = loaded.dict
                /\ pc' = "constructed"
    /\ UNCHANGED <<dict_file, api_key, settings, jobs_file, mapping_results,
                   service_log, now>>
    /\ UNCHANGED <<keyword_vars, clearance_vars, normalize_vars, field_vars>>

\* process_jobs_batch, lines 203-210: the jobs are read, mapping_results = []
LoadJobs ==
    /\ pc = "constructed"
    /\ engine = "ready"
    /\ mapping_results' = <<>>
    /\ pc' = "loop"
    /\ UNCHANGED <<dict_file, api_key, settings, jobs_file, engine,
                   programs_dict, service_log, now>>
    /\ UNCHANGED <<keyword_vars, clearance_vars, normalize_vars, field_vars>>

\* process_jobs_batch, lines 211-213: one iteration of the loop
MapNextJob ==
    /\ pc = "loop"
    /\ Len(mapping_results) < Len(jobs_file)
    /\ LET job == jobs_file[Len(mapping_results) + 1] IN
       \E outcome \in ServiceOutcomes :
       \E set_order \in KeywordOrders(Self, job) :
          /\ mapping_results' =
                 Append(mapping_results,
                        map_job_to_programs(Self, job, outcome, now, set_order))
          /\ service_log' =
                 Append(service_log,
                        IF Raised(_create_mapping_prompt(Self, job))
                        THEN [kind |-> "not_called"] ELSE outcome)
    /\ now' = now + 1
    /\ UNCHANGED <<dict_file, api_key, settings, jobs_file, engine,
                   programs_dict, pc>>
    /\ UNCHANGED <<keyword_vars, clearance_vars, normalize_vars, field_vars>>

\* process_jobs_batch, lines 219-223: the results are written
SaveResults ==
    /\ pc = "loop"
    /\ Len(mapping_results) = Len(jobs_file)
    /\ pc' = "done"
    /\ UNCHANGED <<dict_file, api_key, settings, jobs_file, engine,
                   programs_dict, mapping_results, service_log, now>>
    /\ UNCHANGED <<keyword_vars, clearance_vars, normalize_vars, field_vars>>

Init ==
    /\ dict_file \in DictFiles
    /\ api_key \in BOOLEAN
    /\ settings \in {[model |-> "gpt", keyword_match_threshold |-> F_0_5],
                     [model |-> "gpt"]}
    /\ jobs_file \in SeqsUpTo(Jobs, MaxJobs)
    /\ engine = "none"
    /\ programs_dict = <<>>
    /\ pc = "start"
    /\ mapping_results = <<>>
    /\ service_log = <<>>
    /\ now = 0
    /\ kw_input = NoValue
    /\ kw_runs = <<>>
    /\ description = S_Empty
    /\ clearance = None
    /\ NormalizerIdle
    /\ FieldsIdle

Next == Construct \/ LoadJobs \/ MapNextJob \/ SaveResults

Spec == Init /\ [][Next]_vars

-----------------------------------------------------------------------------
(* Runs of the Keyword Mapping Strategy on one input, each in a process of *)
(* its own (specification SpecKeyword).                                    *)

Job_3 == [job_id |-> "j3", title |-> S_Analyst, company |-> S_Acme,
          description |-> S_DescAll]
Job_4 == [job_id |-> "j4", title |-> S_Analyst, company |-> S_LockheedMartin,
          description |-> S_DescRadar]

KeywordJobs == {Job_1, Job_2, Job_3, Job_4}

MaxRuns == 2

EngineIdle ==
    /\ dict_file = [state |-> "missing"]
    /\ api_key = FALSE
    /\ settings = [model |-> "gpt"]
    /\ jobs_file = <<>>
    /\ engine = "none"
    /\ programs_dict = <<>>
    /\ pc = "idle"
    /\ mapping_results = <<>>
    /\ service_log = <<>>

InitKeyword ==
    /\ kw_input \in [job_data : KeywordJobs, programs_dict : Dictionaries,
                     settings : SettingsValues]
    /\ kw_runs = <<>>
    /\ now = 0
    /\ EngineIdle
    /\ description = S_Empty
    /\ clearance = None
    /\ NormalizerIdle
    /\ FieldsIdle

KwSelf == [programs_dict |-> kw_input.programs_dict, settings |-> kw_input.settings]

\* one run of _keyword_based_mapping (lines 141-186) on the input; the order
\* of set(keywords_found) is that of the run's process
RunKeyword ==
    /\ Len(kw_runs) < MaxRuns
    /\ \E set_order \in KeywordOrders(KwSelf, kw_input.job_data) :
          kw_runs' = Append(kw_runs,
                            _keyword_based_mapping(KwSelf, kw_input.job_data,
                                                   now, set_order))
    /\ now' = now + 1
    /\ UNCHANGED <<kw_input, dict_file, api_key, settings, jobs_file, engine,
                   programs_dict, pc, mapping_results, service_log>>
    /\ UNCHANGED <<clearance_vars, normalize_vars, field_vars>>

NextKeyword == RunKeyword

SpecKeyword == InitKeyword /\ [][NextKeyword]_vars

-----------------------------------------------------------------------------
(* Clearance Extractor: JobNormalizer._extract_clearance                    *)
(* (src/pipelines/scraper_engine/normalize_jobs.py).  A regular expression  *)
(* is a sequence of alternatives, each a sequence of elements: a literal    *)
(* character [c |-> ch] or \s+ [ws |-> TRUE]; the expression stands between *)
(* two \b.                                                                  *)

Digits == <<"0","1","2","3","4","5","6","7","8","9">>

\* \w and \s for the ASCII characters of the model
IsWordChar(ch) ==
    ch \in Range(UpperChars) \cup Range(LowerChars) \cup Range(Digits) \cup {"_"}
IsSpaceChar(ch) == ch \in {" ", "\t", "\n"}

Lit(s) == [i \in 1..Len(s) |-> [c |-> s[i]]]
WS == <<[ws |-> TRUE]>>

\* self.clearance_patterns, lines 22-27, in the order of the dict
clearance_patterns ==
    << <<"TS/SCI", <<Lit(<<"T","S","/","S","C","I">>),
                     Lit(<<"T","o","p">>) \o WS \o Lit(<<"S","e","c","r","e","t","/","S","C","I">>),
                     Lit(<<"T","o","p">>) \o WS \o Lit(<<"S","e","c","r","e","t">>) \o WS \o Lit(<<"S","C","I">>)>> >>,
       <<"TS", <<Lit(<<"T","S">>), Lit(<<"T","o","p">>) \o WS \o Lit(<<"S","e","c","r","e","t">>)>> >>,
       <<"Secret", <<Lit(<<"S","e","c","r","e","t">>), Lit(<<"S","E","C","R","E","T">>)>> >>,
       <<"Confidential", <<Lit(<<"C","o","n","f","i","d","e","n","t","i","a","l">>), Lit(<<"C","O","N","F","I","D","E","N","T","I","A","L">>)>> >> >>

\* \b before position p of text (p in 1..Len(text)+1)
WordBoundary(text, p) ==
    LET before == p > 1 /\ IsWordChar(text[p - 1])
        after == p <= Len(text) /\ IsWordChar(text[p])
    IN  before # after

\* the positions after a run of one or more whitespace characters from p
SpaceEnds(text, p) ==
    {q \in (p + 1)..(Len(text) + 1) : \A k \in p..(q - 1) : IsSpaceChar(text[k])}

RECURSIVE MatchEnds(_, _, _, _)
\* the positions at which elements k.. of alt can end when they start at p0
MatchEnds(alt, text, k, p0) ==
    Bind(p0, LAMBDA p :
        IF k > Len(alt) THEN {p}
        ELSE IF "ws" \in DOMAIN alt[k]
        THEN UNION {MatchEnds(alt, text, k + 1, q) : q \in SpaceEnds(text, p)}
        ELSE IF p <= Len(text) /\ text[p] = alt[k].c
        THEN MatchEnds(alt, text, k + 1, p + 1)
        ELSE {})

\* re.search(r'\b(?:alt1|alt2|...)\b', text), line 122
RegexSearch(alts, text) ==
    \E p \in 1..(Len(text) + 1) :
        /\ WordBoundary(text, p)
        /\ \E a \in 1..Len(alts) :
              \E q \in MatchEnds(alts[a], text, 1, p) : WordBoundary(text, q)

RECURSIVE FirstPattern(_, _)
\* the loop of lines 121-125 from pattern i on
FirstPattern(text, i) ==
    IF i > Len(clearance_patterns) THEN None
    ELSE IF RegexSearch(clearance_patterns[i][2], text)
    THEN clearance_patterns[i][1]
    ELSE FirstPattern(text, i + 1)

\* _extract_clearance, lines 113-125
_extract_clearance(text) ==
    IF text = S_Empty THEN None
    ELSE Bind(Upper(text), LAMBDA description_upper :
             FirstPattern(description_upper, 1))

(* The descriptions of the model: an optional lead, "top", spaces, "secret" *)
(* in three casings, an optional SCI part, an optional tail; and texts      *)
(* without "top secret".                                                    *)

TopSecretTexts ==
    {lead \o top \o gap \o secret \o sci \o tail :
        lead \in {S_Empty, <<"A","c","t","i","v","e"," ">>},
        top \in {<<"T","o","p">>, <<"t","o","p">>, <<"T","O","P">>},
        gap \in {<<" ">>, <<" "," ">>},
        secret \in {<<"S","e","c","r","e","t">>, <<"s","e","c","r","e","t">>, <<"S","E","C","R","E","T">>},
        sci \in {S_Empty, <<"/","S","C","I">>, <<"/","s","c","i">>, <<" ","S","C","I">>},
        tail \in {S_Empty, <<" ","r","e","q","u","i","r","e","d">>}}

OtherTexts ==
    {S_Empty, <<"T","S","/","S","C","I">>, <<"t","s","/","s","c","i"," ","r","e","q","u","i","r","e","d">>, <<"T","S">>, <<"p","a","r","t","s">>, <<"S","e","c","r","e","t">>,
     <<"c","o","n","f","i","d","e","n","t","i","a","l">>, <<"T","o","p","S","e","c","r","e","t">>, <<"n","o"," ","c","l","e","a","r","a","n","c","e">>}

ClearanceTexts == TopSecretTexts \cup OtherTexts

InitClearance ==
    /\ description \in ClearanceTexts
    /\ clearance = [pending |-> TRUE]
    /\ kw_input = NoValue
    /\ kw_runs = <<>>
    /\ now = 0
    /\ EngineIdle
    /\ NormalizerIdle
    /\ FieldsIdle

\* normalize_job, line 37: self._extract_clearance(job_data.get('description', ''))
ExtractClearance ==
    /\ clearance = [pending |-> TRUE]
    /\ clearance' = [level |-> _extract_clearance(description)]
    /\ UNCHANGED <<description, engine_vars, keyword_vars, normalize_vars,
                   field_vars>>

NextClearance == ExtractClearance

SpecClearance == InitClearance /\ [][NextClearance]_vars

-----------------------------------------------------------------------------
(* Properties of the batch run (specification Spec) *)

Mapped == 1..Len(mapping_results)

SourceTags == {"ai_analysis", "keyword_matching", "fallback"}

MappingResultFields ==
    {"job_id", "mapped_programs", "confidence_score", "reasoning",
     "keywords_found", "mapped_at", "source"}

\* the fail-safe empty mapping
IsFailSafe(r) ==
    /\ r.source = "fallback"
    /\ r.mapped_programs = <<>>
    /\ r.confidence_score = 0

\* the service answered, and its answer holds no parseable JSON object
NoParseableJson(outcome) ==
    /\ outcome.kind = "content"
    /\ \/ outcome.content = NoValue
       \/ /\ "text" \in DOMAIN outcome.content
          /\ outcome.content.text \in {R_NoJson, R_TwoObjects}

\* the inputs on which the keyword strategy raises: a dictionary entry
\* without full_name, or settings without the threshold once an entry is
\* scored
KeywordStrategyRaises ==
    \/ \E i \in 1..Len(programs_dict) : "full_name" \notin DOMAIN programs_dict[i][2]
    \/ programs_dict # <<>> /\ "keyword_match_threshold" \notin DOMAIN settings

\* r agrees with a result of the keyword strategy applied to job_data
AgreesWithKeyword(r, job_data) ==
    /\ ~Raised(KeywordScan(Self, job_data))
    /\ \E set_order \in KeywordOrders(Self, job_data) :
          LET kw == _keyword_based_mapping(Self, job_data, r.mapped_at, set_order)
          IN  /\ r.mapped_programs = kw.mapped_programs
              /\ r.confidence_score = kw.confidence_score
              /\ r.reasoning = kw.reasoning
              /\ r.source = kw.source

C2_MapJobAlwaysReturns ==
    /\ Len(mapping_results) = Len(service_log)
    /\ Len(mapping_results) = now
    /\ \A i \in Mapped :
          LET r == mapping_results[i] IN
          /\ ~Raised(r)
          /\ DOMAIN r = MappingResultFields
          /\ r.source \in SourceTags
          /\ (NoParseableJson(service_log[i]) /\ KeywordStrategyRaises)
                => IsFailSafe(r)
          /\ (NoParseableJson(service_log[i]) /\ ~KeywordStrategyRaises)
                => r.source = "keyword_matching"

\* the keyword strategy raised behind an answer without JSON
C2_Witness ==
    \E i \in Mapped :
        /\ NoParseableJson(service_log[i])
        /\ KeywordStrategyRaises
        /\ IsFailSafe(mapping_results[i])
        /\ \E j \in Mapped : mapping_results[j].source = "ai_analysis"

\* C3, as claimed: every MappingResult of the engine, from whichever tier and
\* whatever the service answered, has confidence_score in [0.0, 1.0].
C3_ConfidenceInRange ==
    \A i \in Mapped :
        /\ mapping_results[i].confidence_score >= 0
        /\ mapping_results[i].confidence_score <= 10

\* C4, as claimed: with the dictionary source missing or malformed, loading
\* yields an empty dictionary without failing, and every classification
\* yields empty mapped_programs.
C4_DictionaryFailOpen ==
    (dict_file.state \in {"missing", "malformed"} /\ api_key /\ pc # "start")
        => /\ engine = "ready"
           /\ programs_dict = <<>>
           /\ \A i \in Mapped : mapping_results[i].mapped_programs = <<>>

\* C5, as claimed: with the credentials missing at construction time the
\* engine still answers every job, with the fail-safe mapping.
C5_MissingCredentialsFailSafe ==
    (~api_key /\ dict_file.state = "ok" /\ pc # "start")
        => /\ engine = "ready"
           /\ \A i \in Mapped : IsFailSafe(mapping_results[i])

\* C5, amended: with the credentials missing at construction time the
\* construction of the engine raises: no engine answers map_job, no
\* MappingResult is produced, and the run ends with exit status 1.
C5_MissingCredentialsRaise ==
    ~api_key
        => /\ engine # "ready"
           /\ mapping_results = <<>>
           /\ pc \in {"start", "exit1"}
           /\ pc = "exit1" => engine = "raised"

\* the constructor ran without credentials, with a good dictionary and jobs
C5_Witness ==
    /\ ~api_key
    /\ dict_file.state = "ok"
    /\ jobs_file # <<>>
    /\ pc = "exit1"

\* C6: batch mapping preserves order and cardinality: the i-th result carries
\* the job_id of the i-th job, and the finished batch has one result per job.
C6_BatchOrderAndCardinality ==
    /\ Len(mapping_results) <= Len(jobs_file)
    /\ \A i \in Mapped :
          /\ ~Raised(mapping_results[i])
          /\ mapping_results[i].job_id = Get(jobs_file[i], "job_id", None)
    /\ pc = "done" => Len(mapping_results) = Len(jobs_file)

\* a finished batch of two different jobs answered by different tiers
C6_Witness ==
    /\ pc = "done"
    /\ Len(jobs_file) >= 2
    /\ jobs_file[1] # jobs_file[2]
    /\ mapping_results[1].source = "fallback"
    /\ mapping_results[2].source = "keyword_matching"

-----------------------------------------------------------------------------
(* Properties of the keyword strategy (specification SpecKeyword) *)

Runs == {i \in 1..Len(kw_runs) : ~Raised(kw_runs[i])}

\* how many items of a list occur in the job text
FoundCount(items, job_text) ==
    Cardinality({i \in 1..Len(items) : IsSubstr(Lower(items[i]), job_text)})

\* the score of a program as the specification states it, in tenths: 0.3 per
\* name, acronym or code name found, 0.2 per skill found, 0.4 for the
\* contractor
DecimalScore(details, job_data) ==
    3 * FoundCount(<<details.full_name>> \o Get(details, "acronyms", <<>>)
                       \o Get(details, "code_names", <<>>), JobText(job_data))
    + 2 * FoundCount(Get(details, "key_skills", <<>>), JobText(job_data))
    + (IF IsSubstr(Lower(Get(details, "prime_contractor", S_Empty)),
                   Lower(Get(job_data, "company", S_Empty))) THEN 4 ELSE 0)

\* the threshold's decimal literal, in tenths
DecimalThreshold(th) == IF th = F_0_5 THEN 5 ELSE IF th = F_0_6 THEN 6 ELSE 9

\* C8, as claimed: a program is in mapped_programs if and only if its score
\* (0.3 per name found, 0.2 per skill found, 0.4 for the contractor) meets or
\* exceeds the threshold.
C8_MappedIffScoreMeetsThreshold ==
    \A r \in Runs : \A i \in 1..Len(kw_input.programs_dict) :
        (\E k \in 1..Len(kw_runs[r].mapped_programs) :
             kw_runs[r].mapped_programs[k] = kw_input.programs_dict[i][1])
        <=> (DecimalScore(kw_input.programs_dict[i][2], kw_input.job_data)
                >= DecimalThreshold(kw_input.settings.keyword_match_threshold))

\* C9: a keyword result's confidence_score is min(0.7, 0.2 x the number of
\* mapped programs) (here in tenths), so at most 0.7; with an empty
\* dictionary the run returns no mapped programs and confidence 0.0.
C9_KeywordConfidence ==
    /\ \A r \in Runs :
          LET n == Len(kw_runs[r].mapped_programs) IN
          /\ kw_runs[r].confidence_score = (IF 2 * n <= 7 THEN 2 * n ELSE 7)
          /\ kw_runs[r].confidence_score <= 7
          /\ kw_runs[r].source = "keyword_matching"
    /\ kw_input.programs_dict = <<>>
          => \A r \in 1..Len(kw_runs) :
                /\ ~Raised(kw_runs[r])
                /\ kw_runs[r].mapped_programs = <<>>
                /\ kw_runs[r].confidence_score = 0

\* a run that mapped four programs, where the cap of 0.7 decides
C9_Witness ==
    \E r \in Runs :
        /\ Len(kw_runs[r].mapped_programs) = 4
        /\ kw_runs[r].confidence_score = 7

\* C10, as claimed: two runs on the same (job, dictionary, threshold) yield
\* results equal in every field but mapped_at, the reasoning string and the
\* order of keywords_found included.
C10_KeywordDeterministic ==
    \A r1 \in Runs : \A r2 \in Runs :
        [kw_runs[r1] EXCEPT !.mapped_at = 0] = [kw_runs[r2] EXCEPT !.mapped_at = 0]

-----------------------------------------------------------------------------
(* Properties of the clearance extractor (specification SpecClearance) *)

\* "Top Secret/SCI" in some casing, with one or two spaces
ContainsTopSecretSCI(text) ==
    \/ IsSubstr(<<"T","O","P"," ","S","E","C","R","E","T","/","S","C","I">>, Upper(text))
    \/ IsSubstr(<<"T","O","P"," "," ","S","E","C","R","E","T","/","S","C","I">>, Upper(text))

\* C7, as claimed: for every text containing "Top Secret/SCI" in any casing
\* or spacing variant, clearance extraction returns TS/SCI.
C7_TopSecretSCI ==
    ("level" \in DOMAIN clearance /\ ContainsTopSecretSCI(description))
        => clearance.level = "TS/SCI"

-----------------------------------------------------------------------------
(* The embedded JSON object of a service response (specification Spec) *)

\* the members of the first well-formed JSON object of a response text: the
\* leftmost opening brace closed by a brace with only members in between
FirstJsonObject(text) ==
    LET starts == {i \in 1..Len(text) :
                     /\ text[i] = TOpen
                     /\ \E j \in (i + 1)..Len(text) :
                           /\ text[j] = TClose
                           /\ \A k \in (i + 1)..(j - 1) : text[k].tok = "member"}
    IN  IF starts = {} THEN NoValue
        ELSE LET first == CHOOSE i \in starts : \A k \in starts : i <= k
                 close == CHOOSE j \in (first + 1)..Len(text) :
                             /\ text[j] = TClose
                             /\ \A k \in (first + 1)..(j - 1) : text[k] # TClose
             IN  [members |-> SubSeq(text, first + 1, close - 1)]

\* the response text of the service for the i-th job, NoValue when it gave none
ResponseText(i) ==
    IF service_log[i].kind = "content" /\ "text" \in DOMAIN service_log[i].content
    THEN [text |-> service_log[i].content.text]
    ELSE NoValue

\* C14: when the service's response holds a well-formed JSON object, also
\* next to text and to further brace-delimited fragments, the result is built
\* from the first such object with source ai_analysis, a missing field
\* replaced by the empty list, 0.0 or the empty string; the keyword strategy
\* is reached only when the response holds no well-formed JSON object.
C14_FirstJsonObjectParsed ==
    \A i \in Mapped :
        LET resp == ResponseText(i)
            obj == IF "text" \in DOMAIN resp THEN FirstJsonObject(resp.text)
                   ELSE NoValue
            r == mapping_results[i]
        IN  /\ "members" \in DOMAIN obj =>
                  /\ r.source = "ai_analysis"
                  /\ r.mapped_programs =
                        IF HasKey(obj.members, "mapped_programs")
                        THEN Member(obj.members, "mapped_programs").codes ELSE <<>>
                  /\ r.confidence_score =
                        IF HasKey(obj.members, "confidence_score")
                        THEN Member(obj.members, "confidence_score").num ELSE 0
                  /\ r.reasoning =
                        IF HasKey(obj.members, "reasoning")
                        THEN Member(obj.members, "reasoning").str ELSE S_Empty
            /\ r.source = "keyword_matching" => "members" \notin DOMAIN obj

-----------------------------------------------------------------------------
(* Job Normalizer: JobNormalizer and main of                               *)
(* src/pipelines/scraper_engine/normalize_jobs.py.  A value of a raw       *)
(* record is a tagged Python value: [str |-> characters], [num |-> n],     *)
(* [list |-> items] or NoValue for None; a raw record is a record of such  *)
(* values, and NoValue in the place of a record is a JSON null.  A cleaner *)
(* returns a tagged value or a raise.                                      *)

Str(s) == [str |-> s]
Num(n) == [num |-> n]
List(l) == [list |-> l]
EmptyDict == <<>>

IsStr(v) == "str" \in DOMAIN v

\* bool(v), as `if not v` takes it
Truthy(v) ==
    IF IsStr(v) THEN v.str # <<>>
    ELSE IF "num" \in DOMAIN v THEN v.num # 0
    ELSE IF "list" \in DOMAIN v THEN v.list # <<>>
    ELSE FALSE

\* str.strip()
Strip(s) ==
    LET keep == {i \in 1..Len(s) : ~IsSpaceChar(s[i])}
    IN  IF keep = {} THEN <<>>
        ELSE SubSeq(s, CHOOSE i \in keep : \A j \in keep : i <= j,
                       CHOOSE i \in keep : \A j \in keep : j <= i)

\* re.sub(r'\s+', ' ', s): every maximal run of whitespace becomes one space
ReSubSpaces(s) ==
    LET out[i \in 0..Len(s)] ==
            IF i = 0 THEN <<>>
            ELSE IF ~IsSpaceChar(s[i]) THEN Append(out[i - 1], s[i])
            ELSE IF i > 1 /\ IsSpaceChar(s[i - 1]) THEN out[i - 1]
            ELSE Append(out[i - 1], " ")
    IN  out[Len(s)]

\* re.sub(rf'\b{abbr}\b', full_name, s, flags=re.IGNORECASE)
ReSubWord(s, abbr, full_name) ==
    LET n == Len(abbr)
        hit(i) == /\ i + n - 1 <= Len(s)
                  /\ Upper(SubSeq(s, i, i + n - 1)) = Upper(abbr)
                  /\ WordBoundary(s, i)
                  /\ WordBoundary(s, i + n)
        out[k \in 0..Len(s)] ==       \* what the characters after the first
            LET i == Len(s) - k + 1   \* Len(s) - k become
            IN  IF k = 0 THEN <<>>
                ELSE IF hit(i) THEN full_name \o out[k - n]
                ELSE <<s[i]>> \o out[k - 1]
    IN  out[Len(s)]

\* zero-padded decimal, as %Y, %m, %d, %H, %M, %S and isoformat write it
RECURSIVE Pad(_, _)
Pad(n, width) ==
    IF width = 0 THEN <<>>
    ELSE Append(Pad(n \div 10, width - 1), Digits[(n % 10) + 1])

\* the instants datetime.now() returns in the model
Times ==
    << [year |-> 2024, month |-> 3, day |-> 5, hour |-> 9, minute |-> 7,
        second |-> 59, microsecond |-> 0],
       [year |-> 2024, month |-> 12, day |-> 31, hour |-> 23, minute |-> 59,
        second |-> 59, microsecond |-> 500000] >>

\* datetime.strftime('%Y%m%d_%H%M%S')
Strftime(t) ==
    Pad(t.year, 4) \o Pad(t.month, 2) \o Pad(t.day, 2) \o <<"_">>
        \o Pad(t.hour, 2) \o Pad(t.minute, 2) \o Pad(t.second, 2)

\* datetime.isoformat(): the microseconds are written when they are not zero
Isoformat(t) ==
    Pad(t.year, 4) \o <<"-">> \o Pad(t.month, 2) \o <<"-">> \o Pad(t.day, 2)
        \o <<"T">> \o Pad(t.hour, 2) \o <<":">> \o Pad(t.minute, 2) \o <<":">>
        \o Pad(t.second, 2)
        \o (IF t.microsecond = 0 THEN <<>> ELSE <<".">> \o Pad(t.microsecond, 6))

\* the substitution of line 58 without the lower() of line 59
normalize_job_id_keep_case(job_id, t) ==
    IF ~Truthy(job_id)
    THEN Str(<<"n","o","r","m","a","l","i","z","e","d","_">> \o Strftime(t))
    ELSE IF ~IsStr(job_id) THEN Raise("TypeError")
    ELSE Str([i \in 1..Len(job_id.str) |->
                 IF IsWordChar(job_id.str[i]) \/ job_id.str[i] = "-"
                 THEN job_id.str[i] ELSE "_"])

\* _normalize_job_id, lines 52-59; t is the datetime.now() of line 55;
\* re.sub raises TypeError on a value that is not a str
_normalize_job_id(job_id, t) ==
    IF ~Truthy(job_id)
    THEN Str(<<"n","o","r","m","a","l","i","z","e","d","_">> \o Strftime(t))
    ELSE IF ~IsStr(job_id) THEN Raise("TypeError")
    ELSE Str(Lower([i \in 1..Len(job_id.str) |->
                       IF IsWordChar(job_id.str[i]) \/ job_id.str[i] = "-"
                       THEN job_id.str[i] ELSE "_"]))

\* _normalize_title, lines 61-68; strip is an attribute of str only
_normalize_title(title) ==
    IF ~Truthy(title) THEN Str(<<>>)
    ELSE IF ~IsStr(title) THEN Raise("AttributeError")
    ELSE Str(ReSubSpaces(Strip(title.str)))

\* company_mappings, lines 76-81
company_mappings ==
    << <<<<"a","p","e","x"," ","s","y","s","t","e","m","s">>,
         <<"A","p","e","x"," ","S","y","s","t","e","m","s">>>>,
       <<<<"i","n","s","i","g","h","t"," ","g","l","o","b","a","l">>,
         <<"I","n","s","i","g","h","t"," ","G","l","o","b","a","l">>>>,
       <<<<"c","l","e","a","r","a","n","c","e","j","o","b","s">>,
         <<"C","l","e","a","r","e","d","J","o","b","s">>>>,
       <<<<"c","l","e","a","r","e","d","j","o","b","s",".","c","o","m">>,
         <<"C","l","e","a","r","e","d","J","o","b","s">>>> >>

\* company_mappings.get(key, default)
MappingGet(mappings, key, default) ==
    IF \E i \in 1..Len(mappings) : mappings[i][1] = key
    THEN mappings[CHOOSE i \in 1..Len(mappings) : mappings[i][1] = key][2]
    ELSE default

\* _normalize_company, lines 70-84
_normalize_company(company) ==
    IF ~Truthy(company) THEN Str(<<>>)
    ELSE IF ~IsStr(company) THEN Raise("AttributeError")
    ELSE LET normalized == Lower(Strip(company.str))
         IN  Str(MappingGet(company_mappings, normalized, Strip(company.str)))

\* state_mappings, lines 95-106
state_mappings ==
    << <<<<"C","A">>, <<"C","a","l","i","f","o","r","n","i","a">>>>,
       <<<<"T","X">>, <<"T","e","x","a","s">>>>,
       <<<<"V","A">>, <<"V","i","r","g","i","n","i","a">>>>,
       <<<<"M","D">>, <<"M","a","r","y","l","a","n","d">>>>,
       <<<<"F","L">>, <<"F","l","o","r","i","d","a">>>>,
       <<<<"W","A">>, <<"W","a","s","h","i","n","g","t","o","n">>>>,
       <<<<"M","O">>, <<"M","i","s","s","o","u","r","i">>>>,
       <<<<"C","T">>, <<"C","o","n","n","e","c","t","i","c","u","t">>>>,
       <<<<"U","T">>, <<"U","t","a","h">>>>,
       <<<<"C","O">>, <<"C","o","l","o","r","a","d","o">>>> >>

RECURSIVE StateLoop(_, _)
\* the loop of lines 108-109 from mapping i on
StateLoop(normalized, i) ==
    IF i > Len(state_mappings) THEN normalized
    ELSE Bind(ReSubWord(normalized, state_mappings[i][1], state_mappings[i][2]),
              LAMBDA replaced : StateLoop(replaced, i + 1))

\* _normalize_location, lines 86-111
_normalize_location(location) ==
    IF ~Truthy(location) THEN Str(<<>>)
    ELSE IF ~IsStr(location) THEN Raise("AttributeError")
    ELSE Str(StateLoop(ReSubSpaces(Strip(location.str)), 1))

\* _extract_clearance on a value of a record: upper is an attribute of str only
extract_clearance_of(text) ==
    IF ~Truthy(text) THEN [level |-> None]
    ELSE IF ~IsStr(text) THEN Raise("AttributeError")
    ELSE [level |-> _extract_clearance(text.str)]

\* re.sub(r'<[^>]+>', '', s): an opening angle bracket, one or more
\* characters other than the closing one, and the closing one
ReSubTags(s) ==
    LET close(i) == IF \E j \in (i + 1)..Len(s) : s[j] = ">"
                    THEN CHOOSE j \in (i + 1)..Len(s) :
                             /\ s[j] = ">"
                             /\ \A k \in (i + 1)..(j - 1) : s[k] # ">"
                    ELSE 0
        out[k \in 0..Len(s)] ==
            LET i == Len(s) - k + 1
            IN  IF k = 0 THEN <<>>
                ELSE IF s[i] = "<" /\ close(i) > i + 1 THEN out[Len(s) - close(i)]
                ELSE <<s[i]>> \o out[k - 1]
    IN  out[Len(s)]

\* the characters [\w\s\-.,!?()] of line 139
IsSafeChar(ch) ==
    IsWordChar(ch) \/ IsSpaceChar(ch) \/ ch \in {"-", ".", ",", "!", "?", "(", ")"}

\* re.sub(r'[^\w\s\-.,!?()]', '', s)
ReSubSpecial(s) == SelectSeq(s, IsSafeChar)

\* _clean_description, lines 127-141
_clean_description(text) ==
    IF ~Truthy(text) THEN Str(<<>>)
    ELSE IF ~IsStr(text) THEN Raise("TypeError")
    ELSE Str(Strip(ReSubSpecial(ReSubSpaces(ReSubTags(text.str)))))

IsDigits(s) == s # <<>> /\ \A i \in 1..Len(s) : s[i] \in Range(Digits)

\* int(s) for a string of digits
ToInt(s) ==
    LET val[i \in 0..Len(s)] ==
            IF i = 0 THEN 0
            ELSE 10 * val[i - 1] + (CHOOSE d \in 0..9 : Digits[d + 1] = s[i])
    IN  val[Len(s)]

\* the parts of s between the occurrences of the character sep
Split(s, sep) ==
    LET parts[i \in 0..Len(s)] ==
            IF i = 0 THEN <<<<>>>>
            ELSE IF s[i] = sep THEN Append(parts[i - 1], <<>>)
            ELSE [parts[i - 1] EXCEPT ![Len(parts[i - 1])] = Append(@, s[i])]
    IN  parts[Len(s)]

\* %B and %b: the month names of the C locale
MonthNames ==
    << <<"j","a","n","u","a","r","y">>,
       <<"f","e","b","r","u","a","r","y">>,
       <<"m","a","r","c","h">>,
       <<"a","p","r","i","l">>,
       <<"m","a","y">>,
       <<"j","u","n","e">>,
       <<"j","u","l","y">>,
       <<"a","u","g","u","s","t">>,
       <<"s","e","p","t","e","m","b","e","r">>,
       <<"o","c","t","o","b","e","r">>,
       <<"n","o","v","e","m","b","e","r">>,
       <<"d","e","c","e","m","b","e","r">> >>

DaysIn(year, month) ==
    IF month = 2
    THEN (IF year % 4 = 0 /\ (year % 100 # 0 \/ year % 400 = 0) THEN 29 ELSE 28)
    ELSE IF month \in {4, 6, 9, 11} THEN 30 ELSE 31

\* the date of the directives' values, ValueError when they are none
MakeDate(y, m, d) ==
    IF /\ IsDigits(y) /\ Len(y) = 4 /\ ToInt(y) >= 1
       /\ m \in 1..12
       /\ IsDigits(d) /\ Len(d) \in {1, 2}
       /\ ToInt(d) \in 1..DaysIn(ToInt(y), m)
    THEN [year |-> ToInt(y), month |-> m, day |-> ToInt(d), hour |-> 0,
          minute |-> 0, second |-> 0, microsecond |-> 0]
    ELSE Raise("ValueError")

\* %m: one or two digits, 1 to 12; 0 when s is not a month
MonthNumber(s) ==
    IF IsDigits(s) /\ Len(s) \in {1, 2} /\ ToInt(s) \in 1..12 THEN ToInt(s) ELSE 0

\* %B (abbreviated = FALSE) and %b (abbreviated = TRUE), whatever the case
MonthByName(s, abbreviated) ==
    LET name(i) == IF abbreviated THEN SubSeq(MonthNames[i], 1, 3) ELSE MonthNames[i]
    IN  IF \E i \in 1..12 : name(i) = Lower(s)
        THEN CHOOSE i \in 1..12 : name(i) = Lower(s)
        ELSE 0

\* the date_formats of lines 150-156, in order
date_formats == <<"%Y-%m-%d", "%m/%d/%Y", "%d/%m/%Y", "%B %d, %Y", "%b %d, %Y">>

\* datetime.strptime(date_str, fmt), line 160, for the five formats; the
\* whole string has to match, a space of the format matches a run of spaces
Strptime(date_str, fmt) ==
    IF fmt = "%Y-%m-%d"
    THEN LET p == Split(date_str, "-")
         IN  IF Len(p) = 3 THEN MakeDate(p[1], MonthNumber(p[2]), p[3])
             ELSE Raise("ValueError")
    ELSE IF fmt = "%m/%d/%Y"
    THEN LET p == Split(date_str, "/")
         IN  IF Len(p) = 3 THEN MakeDate(p[3], MonthNumber(p[1]), p[2])
             ELSE Raise("ValueError")
    ELSE IF fmt = "%d/%m/%Y"
    THEN LET p == Split(date_str, "/")
         IN  IF Len(p) = 3 THEN MakeDate(p[3], MonthNumber(p[2]), p[1])
             ELSE Raise("ValueError")
    ELSE LET w == Split(ReSubSpaces(date_str), " ")
         IN  IF Len(w) = 3 /\ w[2] # <<>> /\ w[2][Len(w[2])] = ","
             THEN MakeDate(w[3], MonthByName(w[1], fmt = "%b %d, %Y"),
                           SubSeq(w[2], 1, Len(w[2]) - 1))
             ELSE Raise("ValueError")

RECURSIVE FormatLoop(_, _, _)
\* the loop of lines 158-166 from format i on; t is the datetime.now() of
\* line 166
FormatLoop(date_str, i, t) ==
    IF i > Len(date_formats) THEN Str(Isoformat(t))
    ELSE LET parsed_date == Strptime(date_str, date_formats[i])
         IN  IF Raised(parsed_date) THEN FormatLoop(date_str, i + 1, t)
             ELSE Str(Isoformat(parsed_date))

\* _normalize_date, lines 143-169; strptime raises TypeError on a value that
\* is not a str, which the except of line 168 turns into the current time
_normalize_date(date_str, t) ==
    IF ~Truthy(date_str) THEN Str(Isoformat(t))
    ELSE IF ~IsStr(date_str) THEN Str(Isoformat(t))
    ELSE FormatLoop(date_str.str, 1, t)

\* the try block of normalize_job, lines 32-46; reads are the instants of the
\* datetime.now() of lines 55, 146/166/169, 42 and 43
NormalizeFields(job_data, reads) ==
    LET job_id == _normalize_job_id(Get(job_data, "job_id", Str(<<>>)),
                                    Times[reads[1]])
        title == _normalize_title(Get(job_data, "title", Str(<<>>)))
        company == _normalize_company(Get(job_data, "company", Str(<<>>)))
        location == _normalize_location(Get(job_data, "location", Str(<<>>)))
        clearance_level ==
            extract_clearance_of(Get(job_data, "description", Str(<<>>)))
        cleaned == _clean_description(Get(job_data, "description", Str(<<>>)))
        posted_date == _normalize_date(Get(job_data, "posted_date", Str(<<>>)),
                                       Times[reads[2]])
    IN  IF Raised(job_id) THEN job_id
        ELSE IF Raised(title) THEN title
        ELSE IF Raised(company) THEN company
        ELSE IF Raised(location) THEN location
        ELSE IF Raised(clearance_level) THEN clearance_level
        ELSE IF Raised(cleaned) THEN cleaned
        ELSE [job_id |-> job_id,
              title |-> title,
              company |-> company,
              location |-> location,
              clearance_level |-> clearance_level.level,
              description |-> cleaned,
              url |-> Get(job_data, "url", Str(<<>>)),
              posted_date |-> posted_date,
              source |-> Get(job_data, "source", Str(<<>>)),
              scraped_at |-> Get(job_data, "scraped_at",
                                 Str(Isoformat(Times[reads[3]]))),
              normalized_at |-> Str(Isoformat(Times[reads[4]]))]

\* a value that has no get: here the JSON null
NotADict(job_data) == "none" \in DOMAIN job_data

\* normalize_job without the except of lines 48-50
normalize_job_no_except(job_data, reads) ==
    IF NotADict(job_data) THEN Raise("AttributeError")
    ELSE NormalizeFields(job_data, reads)

\* normalize_job, lines 29-50: an exception of the try block is logged and
\* None (NoValue) is returned; the handler's own job_data.get raises again
\* when job_data is not a dict
normalize_job(job_data, reads) ==
    IF NotADict(job_data) THEN Raise("AttributeError")
    ELSE LET normalized == NormalizeFields(job_data, reads)
         IN  IF Raised(normalized) THEN NoValue ELSE normalized

(* The input files of the model *)

\* a record with every field, in need of cleaning
Raw_Full ==
    [job_id |-> Str(<<"J","o","b"," ","4","2","/","A">>),
     title |-> Str(<<" "," ","S","e","n","i","o","r"," "," "," ","E","n","g","i","n","e","e","r"," ">>),
     company |-> Str(<<" ","a","p","e","x"," ","s","y","s","t","e","m","s">>),
     location |-> Str(<<"A","u","s","t","i","n",","," "," ","t","x">>),
     description |-> Str(<<"<","p",">","T","o","p"," ","S","e","c","r","e","t","<","/","p",">"," ","w","o","r","k">>),
     url |-> Str(<<"h","t","t","p",":","/","/","x">>),
     posted_date |-> Str(<<"0","3","/","0","5","/","2","0","2","4">>),
     source |-> Str(<<"A","p","e","x">>),
     scraped_at |-> Str(<<"2","0","2","4","-","0","1","-","0","1","T","0","0",":","0","0",":","0","0">>)]
\* fields of unexpected types that raise in the cleaners
Raw_NumberId == [job_id |-> Num(42), title |-> Str(<<"P","i","l","o","t">>), source |-> Str(<<"a","p","e","x">>)]
Raw_ListTitle == [job_id |-> Str(<<"a","-","1">>), title |-> List(<<Num(1)>>)]
\* fields of unexpected types that the cleaners take for missing or pass on
Raw_Falsy ==
    [job_id |-> Num(0), title |-> List(<<>>), description |-> NoValue,
     url |-> Num(7), posted_date |-> Num(20240305)]
\* a source that has no lower()
Raw_NumberSource == [job_id |-> Str(<<"B","_","2">>), source |-> Num(3),
                     posted_date |-> Str(<<"s","o","o","n">>)]

RawRecords ==
    {EmptyDict, Raw_Full, Raw_NumberId, Raw_ListTitle, Raw_Falsy,
     Raw_NumberSource, NoValue}

MaxRaw == 2

InputFiles ==
    {[state |-> "missing"]}
    \cup {[state |-> "ok", content |-> jobs] : jobs \in SeqsUpTo(RawRecords, MaxRaw)}

SourceArgs == {NoValue, Str(<<"A","p","e","x">>)}

\* the filter of line 195; get and lower raise AttributeError on a job that
\* is not a dict and on a source that is not a str
SourceFilter(jobs, source) ==
    IF \E i \in 1..Len(jobs) :
           \/ NotADict(jobs[i])
           \/ ~IsStr(Get(jobs[i], "source", Str(<<>>)))
    THEN Raise("AttributeError")
    ELSE [jobs |-> SelectSeq(jobs, LAMBDA job :
                      Lower(Get(job, "source", Str(<<>>)).str) = Lower(source.str))]

\* the nondecreasing instants four successive datetime.now() return from c on
ClockReads(c) ==
    {r \in [1..4 -> c..Len(Times)] : \A i \in 1..3 : r[i] <= r[i + 1]}

\* main, lines 186-196 and 213-215: the input is loaded and filtered; an
\* exception ends the run with sys.exit(1)
LoadInput ==
    /\ norm_pc = "start"
    /\ IF input_file.state # "ok"
       THEN norm_pc' = "exit1" /\ UNCHANGED raw_jobs
       ELSE IF ~Truthy(source_arg)
       THEN norm_pc' = "loop" /\ raw_jobs' = input_file.content
       ELSE LET filtered == SourceFilter(input_file.content, source_arg)
            IN  IF Raised(filtered)
                THEN norm_pc' = "exit1" /\ UNCHANGED raw_jobs
                ELSE norm_pc' = "loop" /\ raw_jobs' = filtered.jobs
    /\ UNCHANGED <<input_file, source_arg, normalized_jobs, normalize_log, clock>>
    /\ UNCHANGED <<engine_vars, keyword_vars, clearance_vars, field_vars>>

\* main, lines 200-203 and 213-215: one iteration of the loop
NormalizeNext ==
    /\ norm_pc = "loop"
    /\ Len(normalize_log) < Len(raw_jobs)
    /\ \E reads \in ClockReads(clock) :
          LET job == raw_jobs[Len(normalize_log) + 1]
              normalized == normalize_job(job, reads)
          IN  /\ normalize_log' = Append(normalize_log, normalized)
              /\ IF Raised(normalized)
                 THEN norm_pc' = "exit1" /\ UNCHANGED normalized_jobs
                 ELSE /\ norm_pc' = norm_pc
                      /\ normalized_jobs' =
                             IF normalized = NoValue THEN normalized_jobs
                             ELSE Append(normalized_jobs, normalized)
              /\ clock' = reads[4]
    /\ UNCHANGED <<input_file, source_arg, raw_jobs>>
    /\ UNCHANGED <<engine_vars, keyword_vars, clearance_vars, field_vars>>

\* main, lines 205-215: normalized_jobs is written to the file of --output,
\* which can fail
SaveOutput ==
    /\ norm_pc = "loop"
    /\ Len(normalize_log) = Len(raw_jobs)
    /\ \E written \in BOOLEAN : norm_pc' = IF written THEN "saved" ELSE "exit1"
    /\ UNCHANGED <<input_file, source_arg, raw_jobs, normalized_jobs,
                   normalize_log, clock>>
    /\ UNCHANGED <<engine_vars, keyword_vars, clearance_vars, field_vars>>

InitNormalize ==
    /\ input_file \in InputFiles
    /\ source_arg \in SourceArgs
    /\ norm_pc = "start"
    /\ raw_jobs = <<>>
    /\ normalized_jobs = <<>>
    /\ normalize_log = <<>>
    /\ clock = 1
    /\ EngineIdle
    /\ now = 0
    /\ kw_input = NoValue
    /\ kw_runs = <<>>
    /\ description = S_Empty
    /\ clearance = None
    /\ FieldsIdle

NextNormalize == LoadInput \/ NormalizeNext \/ SaveOutput

SpecNormalize == InitNormalize /\ [][NextNormalize]_vars

-----------------------------------------------------------------------------
(* Runs of one field cleaner on one value (specification SpecFields) *)

MaxIdLen == 3
MaxDescLen == 5

IdChars == {"A", "b", "7", "_", "-", " ", "/"}
DescChars == {"a", " ", "@", "<", ">"}

\* raw job ids: every string over IdChars up to MaxIdLen, the empty one that
\* job_data.get puts for a missing id included, and values that are no str
JobIdValues ==
    {Str(s) : s \in SeqsUpTo(IdChars, MaxIdLen)} \cup {Num(0), Num(42), NoValue}

\* raw descriptions: every string over DescChars up to MaxDescLen, and a
\* text with tags, a line break and an entity
DescriptionValues ==
    {Str(s) : s \in SeqsUpTo(DescChars, MaxDescLen)}
    \cup {Str(<<"<","p",">","T","o","p"," ","S","e","c","r","e","t","<","/","p",">","\n","&","a","m","p",";"," ","m","o","r","e"," ","-"," ","n","o","w">>), Num(5)}

\* raw companies: the spellings of an alias with leading, trailing and
\* repeated whitespace, the other aliases, and companies without alias
CompanyValues ==
    {Str(lead \o first \o gap \o second \o trail) :
        lead \in {<<>>, <<" ">>},
        first \in {<<"a","p","e","x">>, <<"A","P","E","X">>, <<"A","p","e","x">>},
        gap \in {<<" ">>, <<" "," "," ">>, <<"\t">>},
        second \in {<<"s","y","s","t","e","m","s">>, <<"S","y","s","t","e","m","s">>},
        trail \in {<<>>, <<" ">>, <<"\n">>}}
    \cup {Str(<<>>),
          Str(<<"I","n","s","i","g","h","t"," ","G","l","o","b","a","l">>),
          Str(<<"i","n","s","i","g","h","t"," "," ","g","l","o","b","a","l">>),
          Str(<<"C","l","e","a","r","a","n","c","e","J","o","b","s">>),
          Str(<<"c","l","e","a","r","e","d","j","o","b","s",".","c","o","m">>),
          Str(<<"C","l","e","a","r","e","d","J","o","b","s",".","c","o","m"," ">>),
          Str(<<"A","c","m","e"," ","C","o","r","p">>),
          Str(<<"A","c","m","e"," "," ","C","o","r","p">>),
          Str(<<" ","L","o","c","k","h","e","e","d"," ","M","a","r","t","i","n"," ">>),
          Num(5)}

FieldInputs ==
    [field : {"job_id"}, value : JobIdValues, t : 1..Len(Times)]
    \cup [field : {"description"}, value : DescriptionValues, t : {1}]
    \cup [field : {"company"}, value : CompanyValues, t : {1}]

InitFields ==
    /\ field_input \in FieldInputs
    /\ field_output = NoValue
    /\ EngineIdle
    /\ now = 0
    /\ kw_input = NoValue
    /\ kw_runs = <<>>
    /\ description = S_Empty
    /\ clearance = None
    /\ NormalizerIdle

\* normalize_job, line 33
NormalizeJobId ==
    /\ field_input.field = "job_id"
    /\ field_output = NoValue
    /\ field_output' = _normalize_job_id(field_input.value, Times[field_input.t])
    /\ UNCHANGED <<field_input, engine_vars, keyword_vars, clearance_vars,
                   normalize_vars>>

\* normalize_job, line 35
NormalizeCompany ==
    /\ field_input.field = "company"
    /\ field_output = NoValue
    /\ field_output' = _normalize_company(field_input.value)
    /\ UNCHANGED <<field_input, engine_vars, keyword_vars, clearance_vars,
                   normalize_vars>>

\* normalize_job, line 38
CleanDescription ==
    /\ field_input.field = "description"
    /\ field_output = NoValue
    /\ field_output' = _clean_description(field_input.value)
    /\ UNCHANGED <<field_input, engine_vars, keyword_vars, clearance_vars,
                   normalize_vars>>

NextFields == NormalizeJobId \/ NormalizeCompany \/ CleanDescription

SpecFields == InitFields /\ [][NextFields]_vars

-----------------------------------------------------------------------------
(* Properties of the normalization batch (specification SpecNormalize) *)

NormalizedJobFields ==
    {"job_id", "title", "company", "location", "clearance_level",
     "description", "url", "posted_date", "source", "scraped_at",
     "normalized_at"}

Normalized == 1..Len(normalize_log)

\* what normalize_job returned is a job, neither None nor a raise
IsJob(n) == n # NoValue /\ ~Raised(n)

\* a job of a raw record without any field: the optional fields empty, the
\* job_id made from a timestamp
IsBlankJob(n) ==
    /\ n.title = Str(<<>>)
    /\ n.company = Str(<<>>)
    /\ n.location = Str(<<>>)
    /\ n.description = Str(<<>>)
    /\ n.url = Str(<<>>)
    /\ n.source = Str(<<>>)
    /\ n.clearance_level = None
    /\ \E t \in 1..Len(Times) :
          n.job_id = Str(<<"n","o","r","m","a","l","i","z","e","d","_">>
                            \o Strftime(Times[t]))

\* C11: normalize_job, given a raw record, returns a NormalizedJob or None
\* and never raises, also for a record without any field and for one whose
\* fields have unexpected types; a record without any field yields None or a
\* job with empty optional fields and a job_id made from a timestamp; the
\* batch output holds the jobs that were returned, in input order, without a
\* placeholder for a discarded record.
C11_NormalizeTotal ==
    /\ \A i \in Normalized :
          ~NotADict(raw_jobs[i]) =>
              LET n == normalize_log[i]
              IN  /\ ~Raised(n)
                  /\ n = NoValue \/ DOMAIN n = NormalizedJobFields
                  /\ raw_jobs[i] = EmptyDict => (n = NoValue \/ IsBlankJob(n))
    /\ normalized_jobs = SelectSeq(normalize_log, IsJob)
    /\ norm_pc = "saved" => Len(normalize_log) = Len(raw_jobs)

\* a batch is saved in which a record with a field of an unexpected type was
\* discarded and a record without any field was normalized after it
C11_Witness ==
    /\ norm_pc = "saved"
    /\ raw_jobs = <<Raw_ListTitle, EmptyDict>>
    /\ normalize_log[1] = NoValue
    /\ Len(normalized_jobs) = 1
    /\ IsBlankJob(normalized_jobs[1])

-----------------------------------------------------------------------------
(* Properties of the field cleaners (specification SpecFields) *)

\* the cleaner of this field returned a str
Cleaned(field) == field_input.field = field /\ IsStr(field_output)

\* [a-z0-9_-]
IsLowerIdChar(ch) ==
    ch \in Range(LowerChars) \cup Range(Digits) \cup {"_", "-"}

\* normalized_YYYYmmdd_HHMMSS
IsSynthesizedId(s) ==
    /\ Len(s) = 26
    /\ SubSeq(s, 1, 11) = <<"n","o","r","m","a","l","i","z","e","d","_">>
    /\ \A i \in 12..26 : IF i = 20 THEN s[i] = "_" ELSE s[i] \in Range(Digits)

\* C12: the job_id of a NormalizedJob is not empty and made only of the
\* characters a-z, 0-9, _ and -; for an empty or missing raw job_id it is
\* made from a timestamp and is so too.
C12_JobIdCharset ==
    Cleaned("job_id") =>
        /\ field_output.str # <<>>
        /\ \A i \in 1..Len(field_output.str) : IsLowerIdChar(field_output.str[i])
        /\ ~Truthy(field_input.value) => IsSynthesizedId(field_output.str)

\* a raw job_id with a capital and a special character was normalized
C12_Witness ==
    /\ Cleaned("job_id")
    /\ field_input.value = Str(<<"A", "/", "b">>)
    /\ field_output = Str(<<"a", "_", "b">>)

\* no leading, trailing or repeated whitespace
IsCollapsed(s) ==
    /\ s # <<>> => ~IsSpaceChar(s[1]) /\ ~IsSpaceChar(s[Len(s)])
    /\ \A i \in 1..(Len(s) - 1) : ~(IsSpaceChar(s[i]) /\ IsSpaceChar(s[i + 1]))

\* C13: the normalized description has no run of two or more whitespace
\* characters and no leading or trailing whitespace, and holds only word
\* characters, whitespace and - . , ! ? ( ), also when a removed tag or a
\* removed special character stood between spaces.
C13_DescriptionCollapsed ==
    Cleaned("description") =>
        /\ IsCollapsed(field_output.str)
        /\ \A i \in 1..Len(field_output.str) : IsSafeChar(field_output.str[i])

\* the raw company with surrounding whitespace removed and every run of
\* whitespace made one space
CollapsedCompany == ReSubSpaces(Strip(field_input.value.str))

\* C15: the normalized company is whitespace-collapsed; when the raw company
\* equals a key of the alias table but for case and for surrounding or
\* repeated whitespace, it is the alias's display name, otherwise it is the
\* whitespace-collapsed raw company.
C15_CompanyAlias ==
    (Cleaned("company") /\ IsStr(field_input.value)) =>
        /\ IsCollapsed(field_output.str)
        /\ field_output.str =
               MappingGet(company_mappings, Lower(CollapsedCompany),
                          CollapsedCompany)

====
